---- MODULE Spec2Model ----
(***************************************************************************)
(* State-machine model of the lyric call-and-response game of src/main.py: *)
(* the similarity scorer, the per-user session state machine, the session  *)
(* store with its periodic sweep, the lyric cache and the plugin's         *)
(* active_sessions routing set.                                            *)
(*                                                                         *)
(* Texts are sequences of one-character strings.  A Python None that the   *)
(* code only ever tests for truthiness (lyrics, song lists, the start      *)
(* keyword) is the empty sequence.  Sequences are 1-based here and 0-based *)
(* in the source: source index i is element i + 1.                         *)
(*                                                                         *)
(* Each handler of the plugin is an operation the host may invoke for any  *)
(* user in any session state; the host's own ordering of handlers for one  *)
(* message is outside the source.  A handler that awaits is split at its   *)
(* awaits; a user's next message is handled when the previous one is done. *)
(*                                                                         *)
(* Five specifications: Spec is one user playing, with the sweep, the      *)
(* clock and the two fault boundaries of the handlers; SweepSpec is the    *)
(* sweep on a store of two sessions; LookupSpec is the lookup collaborator *)
(* (NeteaseAPI: the lyric parsers, get_lyrics, search_songs) on one HTTP   *)
(* exchange; MatcherSpec is one call of the scorer or of the locator       *)
(* find_position; CacheSpec is the selection handlers of two users         *)
(* interleaving on the lyric cache.                                        *)
(***************************************************************************)
EXTENDS Integers, Sequences, FiniteSets, TLC

(***************************************************************************)
(* Bounds of the model and configuration defaults of the program.          *)
(***************************************************************************)
Users == {"u1", "u2"}
\* the users of the single-player specification
Players == {"u1"}

\* configuration defaults (LyricGame.__init__)
session_timeout == 60
match_threshold == 75

\* the wall clock starts at StartTime and advances TickSeconds at a time,
\* at most MaxTicks times
StartTime == 1000
TickSeconds == 60
MaxTicks == 3

(***************************************************************************)
(* Characters and texts.                                                   *)
(***************************************************************************)
LowerChars == {"a", "b", "c", "d", "q", "x", "y"}
UpperChars == {"A", "B"}
SpaceChars == {" "}
PunctChars == {"!"}

Lower(c) == IF c = "A" THEN "a" ELSE IF c = "B" THEN "b" ELSE c

RECURSIVE StripChars(_, _)
StripChars(text, drop) ==
    IF text = <<>> THEN <<>>
    ELSE IF Head(text) \in drop THEN StripChars(Tail(text), drop)
    ELSE <<Head(text)>> \o StripChars(Tail(text), drop)

\* LyricGame.clean_text: drop punctuation, drop whitespace, lower-case
clean_text(text) ==
    IF text = <<>> THEN <<>>
    ELSE LET nopunct == StripChars(text, PunctChars)
             nospace == StripChars(nopunct, SpaceChars)
         IN [i \in 1..Len(nospace) |-> Lower(nospace[i])]

Min3(a, b, c) == IF a <= b /\ a <= c THEN a ELSE IF b <= c THEN b ELSE c

\* inner loop of _levenshtein_distance: current_row for character c1
RECURSIVE LevRow(_, _, _, _)
LevRow(previous_row, c1, s2, current_row) ==
    IF Len(current_row) = Len(s2) + 1 THEN current_row
    ELSE LET j == Len(current_row)
             insertions == previous_row[j + 1] + 1
             deletions == current_row[j] + 1
             substitutions == previous_row[j] + (IF c1 # s2[j] THEN 1 ELSE 0)
         IN LevRow(previous_row, c1, s2,
                   Append(current_row, Min3(insertions, deletions, substitutions)))

\* outer loop of _levenshtein_distance: rows for s1[i..]
RECURSIVE LevRows(_, _, _, _)
LevRows(s1, s2, i, previous_row) ==
    IF i > Len(s1) THEN previous_row
    ELSE LevRows(s1, s2, i + 1, LevRow(previous_row, s1[i], s2, <<i>>))

\* LyricGame._levenshtein_distance
RECURSIVE levenshtein_distance(_, _)
levenshtein_distance(s1, s2) ==
    IF Len(s1) < Len(s2) THEN levenshtein_distance(s2, s1)
    ELSE IF Len(s2) = 0 THEN Len(s1)
    ELSE LevRows(s1, s2, 1, [j \in 1..(Len(s2) + 1) |-> j - 1])[Len(s2) + 1]

\* Python's "a in b" on strings
IsSubstring(a, b) ==
    \E i \in 0..(Len(b) - Len(a)) : SubSeq(b, i + 1, i + Len(a)) = a

\* int((1 - distance / max_len) * 100) in IEEE double arithmetic: the floor
\* of the exact quotient, except where the double product falls just below
\* an integer (distance 4 of max_len 5 gives 19.999999999999996)
FloatPercent(distance, max_len) ==
    IF distance = 4 /\ max_len = 5 THEN 19
    ELSE ((max_len - distance) * 100) \div max_len

calculate_similarity_contained_one_way(text1, text2) ==
    IF text1 = <<>> \/ text2 = <<>> THEN 0
    ELSE LET clean1 == clean_text(text1)
             clean2 == clean_text(text2)
         IN IF clean1 = <<>> \/ clean2 = <<>> THEN 0
            ELSE IF clean1 = clean2 THEN 100
            ELSE IF IsSubstring(clean1, clean2) THEN 90
            ELSE LET max_len == IF Len(clean1) >= Len(clean2) THEN Len(clean1) ELSE Len(clean2)
                     distance == levenshtein_distance(clean1, clean2)
                     similarity == FloatPercent(distance, max_len)
                 IN IF similarity > 0 THEN similarity ELSE 0
\* LyricGame.calculate_similarity
calculate_similarity(text1, text2) ==
    IF text1 = <<>> \/ text2 = <<>> THEN 0
    ELSE LET clean1 == clean_text(text1)
             clean2 == clean_text(text2)
         IN IF clean1 = <<>> \/ clean2 = <<>> THEN 0
            ELSE IF clean1 = clean2 THEN 100
            ELSE IF IsSubstring(clean1, clean2) \/ IsSubstring(clean2, clean1) THEN 90
            ELSE LET max_len == IF Len(clean1) >= Len(clean2) THEN Len(clean1) ELSE Len(clean2)
                     distance == levenshtein_distance(clean1, clean2)
                     similarity == FloatPercent(distance, max_len)
                 IN IF similarity > 0 THEN similarity ELSE 0

\* LyricGame.is_match
is_match(user_input, expected) ==
    calculate_similarity(user_input, expected) >= match_threshold

(***************************************************************************)
(* The lookup collaborator's catalogue: the songs a search can return and  *)
(* the parsed line sequence NeteaseAPI.get_lyrics yields for each.         *)
(***************************************************************************)
Songs == {"s1", "s2", "s3"}
NoSong == "none"

T_abcd == <<"a", "b", "c", "d">>
T_cd == <<"c", "d">>
T_dcba == <<"d", "c", "b", "a">>
T_ABcd == <<"A", "B", " ", "c", "d", "!">>
T_abcx == <<"a", "b", "c", "x">>
T_xy == <<"x", "y">>
T_q == <<"q">>

Line(time, text) == [time |-> time, text |-> text]

\* s1 has an even number of lines, s2 an odd number, s3 has no lyrics
LyricsOf(song) ==
    IF song = "s1" THEN <<Line(0, T_abcd), Line(1000, T_cd), Line(2000, T_dcba), Line(3000, T_cd)>>
    ELSE IF song = "s2" THEN <<Line(0, T_dcba), Line(1000, T_cd), Line(2000, T_abcd)>>
    ELSE <<>>

\* what a search may return: nothing, or a list of candidate songs
SearchOutcomes == {<<>>, <<"s1", "s2", "s3">>, <<"s2">>}
\* lyric keywords of the "from" command
Keywords == {T_cd, T_xy}
\* non-empty, non-numeric messages a user may send
Messages == {T_ABcd, T_abcx, T_cd, T_dcba, T_xy, T_q}
\* numbers a user may send (the regex ^\d+$ admits no negative number)
Choices == 0..4
\* handle_all_messages: the exit commands
ExitWords == {T_q}

(***************************************************************************)
(* NeteaseAPI: the metadata filter and the two lyric parsers.  A raw lyric *)
(* text is the sequence of its physical lines (split('\n')), each line the *)
(* tokens the parser's regular expression takes it apart into; line texts  *)
(* are character sequences.                                                *)
(***************************************************************************)
\* the longest raw lyric text, in physical lines
MaxRawLines == 2

\* the full-width colon and a "(t,d,0)" word marker of format A, one token each
FullwidthColon == "fw:"
Marker == "(t,d,0)"

T_OP == <<"O", "P">>
\* NeteaseAPI.metadata_keywords: the entry 'OP' of the default list
metadata_keywords == <<T_OP>>

\* str.lower() on the characters of raw lyric text
PyLower(c) == IF c = "O" THEN "o" ELSE IF c = "P" THEN "p" ELSE Lower(c)

RECURSIVE LStrip(_)
LStrip(text) ==
    IF text # <<>> /\ Head(text) \in SpaceChars THEN LStrip(Tail(text)) ELSE text
RECURSIVE RStrip(_)
RStrip(text) ==
    IF text # <<>> /\ text[Len(text)] \in SpaceChars
    THEN RStrip(SubSeq(text, 1, Len(text) - 1)) ELSE text
\* str.strip()
strip(text) == RStrip(LStrip(text))

\* re.sub(r'^\[.*?\]', '', text): drop a leading bracketed tag, up to the
\* first closing bracket
LeadingTagRemoved(text) ==
    IF text # <<>> /\ Head(text) = "[" /\ \E i \in 2..Len(text) : text[i] = "]"
    THEN LET close == CHOOSE i \in 2..Len(text) :
                          text[i] = "]" /\ \A j \in 2..(i - 1) : text[j] # "]"
         IN  SubSeq(text, close + 1, Len(text))
    ELSE text

\* str.startswith
StartsWith(text, prefix) ==
    Len(text) >= Len(prefix) /\ SubSeq(text, 1, Len(prefix)) = prefix

\* fold the full-width colon, remove all whitespace, lower-case
Normalized(text) ==
    LET folded == [i \in 1..Len(text) |->
                      IF text[i] = FullwidthColon THEN ":" ELSE text[i]]
        nospace == StripChars(folded, SpaceChars)
    IN  [i \in 1..Len(nospace) |-> PyLower(nospace[i])]

\* NeteaseAPI._is_metadata_line
is_metadata_line(text) ==
    IF text = <<>> THEN FALSE
    ELSE LET text_content == LeadingTagRemoved(text)
         IN  IF strip(text_content) = <<>> THEN FALSE
             ELSE LET cleaned == Normalized(text_content)
                  IN  \E k \in 1..Len(metadata_keywords) :
                          LET kw == StripChars(metadata_keywords[k], SpaceChars)
                              clean_kw == [i \in 1..Len(kw) |-> PyLower(kw[i])]
                          IN  StartsWith(cleaned, clean_kw \o <<":">>)

\* a physical line of format A: a JSON object line, a line "[start,duration]"
\* followed by its payload of characters and word markers, or any other text
YrcJson == [kind |-> "json", start |-> 0, payload |-> <<"{", "}">>]
YrcTimed(start, payload) == [kind |-> "timed", start |-> start, payload |-> payload]
YrcOther(payload) == [kind |-> "other", start |-> 0, payload |-> payload]

\* line.startswith('{') is skipped; re.match(r'\[(\d+),\d+\](.+)', line)
\* needs the time tag and at least one payload token
YrcMatches(line) == line.kind = "timed" /\ line.payload # <<>>

\* re.sub(r'\(\d+,\d+,\d+\)', '', text_part).strip()
YrcText(payload) == strip(StripChars(payload, {Marker}))

\* NeteaseAPI._parse_yrc_lyrics: the lines are kept in file order
RECURSIVE parse_yrc_lyrics(_)
parse_yrc_lyrics(yrc_content) ==
    IF yrc_content = <<>> THEN <<>>
    ELSE LET line == Head(yrc_content)
             rest == parse_yrc_lyrics(Tail(yrc_content))
         IN  IF YrcMatches(line)
                /\ YrcText(line.payload) # <<>>
                /\ ~is_metadata_line(YrcText(line.payload))
             THEN <<Line(line.start, YrcText(line.payload))>> \o rest
             ELSE rest

\* one match of r'\[(\d+):(\d+)\.(\d+)\]([^\[]+)' in a physical line of
\* format B: the tag's three digit groups and the text up to the next tag
Segment(minutes, seconds, ms_str, text) ==
    [minutes |-> minutes, seconds |-> seconds, ms_str |-> ms_str, text |-> text]

\* int(ms_str) of a sequence of decimal digits
RECURSIVE DigitsValue(_)
DigitsValue(digits) ==
    IF digits = <<>> THEN 0
    ELSE DigitsValue(SubSeq(digits, 1, Len(digits) - 1)) * 10 + digits[Len(digits)]

\* (minutes * 60 + seconds) * 1000 + milliseconds, two fraction digits
\* counting hundredths
LrcTimestamp(seg) ==
    (seg.minutes * 60 + seg.seconds) * 1000
        + DigitsValue(seg.ms_str) * (IF Len(seg.ms_str) = 2 THEN 10 ELSE 1)

\* the lines one physical line of format B contributes: a tag directly
\* followed by another tag or by the line's end has no text and no match
RECURSIVE LrcLineMatches(_)
LrcLineMatches(segments) ==
    IF segments = <<>> THEN <<>>
    ELSE LET seg == Head(segments)
             text == strip(seg.text)
             rest == LrcLineMatches(Tail(segments))
         IN  IF seg.text # <<>> /\ text # <<>> /\ ~is_metadata_line(text)
             THEN <<Line(LrcTimestamp(seg), text)>> \o rest
             ELSE rest

RECURSIVE LrcCollected(_)
LrcCollected(lrc_content) ==
    IF lrc_content = <<>> THEN <<>>
    ELSE LrcLineMatches(Head(lrc_content)) \o LrcCollected(Tail(lrc_content))

\* the place list.sort gives a line: behind every line that is not later
RECURSIVE InsertByTime(_, _)
InsertByTime(sorted, line) ==
    IF sorted = <<>> THEN <<line>>
    ELSE IF sorted[Len(sorted)].time <= line.time THEN Append(sorted, line)
    ELSE Append(InsertByTime(SubSeq(sorted, 1, Len(sorted) - 1), line),
                sorted[Len(sorted)])

\* lyrics.sort(key=lambda x: x['time']): a stable sort
RECURSIVE sort_by_time(_)
sort_by_time(lyrics) ==
    IF lyrics = <<>> THEN <<>>
    ELSE InsertByTime(sort_by_time(SubSeq(lyrics, 1, Len(lyrics) - 1)),
                      lyrics[Len(lyrics)])

parse_lrc_lyrics_unsorted(lrc_content) == LrcCollected(lrc_content)
\* NeteaseAPI._parse_lrc_lyrics
parse_lrc_lyrics(lrc_content) == sort_by_time(LrcCollected(lrc_content))

(***************************************************************************)
(* NeteaseAPI.get_lyrics and NeteaseAPI.search_songs on one HTTP exchange. *)
(* An exchange ends in a timeout, in a client error, or in a response with *)
(* a status and a body; a body is unreadable as JSON, a JSON array or a    *)
(* JSON object.  A field of an object is absent, null or has a value.      *)
(***************************************************************************)
NoField == [kind |-> "absent", value |-> <<>>]
NullField == [kind |-> "null", value |-> <<>>]
Field(value) == [kind |-> "value", value |-> value]

\* a body; the fields of an object are code, yrc.lyric, lrc.lyric and
\* result.songs
Body(shape, code, yrc, lrc, result) ==
    [shape |-> shape, code |-> code, yrc |-> yrc, lrc |-> lrc, result |-> result]
NoBody == Body("none", 0, NoField, NoField, NoField)

Exchange(transport, status, body) ==
    [transport |-> transport, status |-> status, body |-> body]

\* the outcome of a call: what it returns, or the exception it raises
Returns(value) == [raised |-> "none", value |-> value]
Raises(exception) == [raised |-> exception, value |-> <<>>]

\* the except clauses of get_lyrics and of search_songs: aiohttp.ClientError,
\* asyncio.TimeoutError, (KeyError, TypeError, ValueError); the call then
\* returns None
Caught == {"ClientError", "TimeoutError", "KeyError", "TypeError", "ValueError"}
Guarded(outcome) ==
    IF outcome.raised \in Caught THEN Returns(<<>>) ELSE outcome

\* session.get and resp.json(): the exception they raise, "none" when the
\* body arrives as parsed JSON
TransportError(exchange) ==
    IF exchange.transport = "timeout" THEN "TimeoutError"
    ELSE IF exchange.transport = "client_error" THEN "ClientError"
    ELSE IF exchange.status = 200 /\ exchange.body.shape = "not_json" THEN "ValueError"
    ELSE "none"

\* the try block of get_lyrics
get_lyrics_try(exchange) ==
    LET data == exchange.body
    IN  IF TransportError(exchange) # "none" THEN Raises(TransportError(exchange))
        ELSE IF exchange.status # 200 THEN Returns(<<>>)
        ELSE IF data.shape # "object" THEN Raises("AttributeError")
        ELSE IF data.code # 200 THEN Returns(<<>>)
        ELSE IF data.yrc.kind = "null" THEN Raises("AttributeError")
        ELSE IF data.yrc.value # <<>> THEN Returns(parse_yrc_lyrics(data.yrc.value))
        ELSE IF data.lrc.kind = "null" THEN Raises("AttributeError")
        ELSE IF data.lrc.value # <<>> THEN Returns(parse_lrc_lyrics(data.lrc.value))
        ELSE Returns(<<>>)

\* NeteaseAPI.get_lyrics
get_lyrics(exchange) == Guarded(get_lyrics_try(exchange))

\* an entry of result.songs that is no JSON object
MalformedSong == "malformed"

\* the try block of search_songs; song.get of an entry that is no object
\* raises AttributeError, which the loop's except clause does not name
search_songs_try(exchange) ==
    LET data == exchange.body
    IN  IF TransportError(exchange) # "none" THEN Raises(TransportError(exchange))
        ELSE IF exchange.status # 200 THEN Returns(<<>>)
        ELSE IF data.shape # "object" THEN Raises("AttributeError")
        ELSE IF data.code # 200 THEN Returns(<<>>)
        ELSE IF data.result.kind = "null" THEN Raises("AttributeError")
        ELSE IF data.result.value = <<>> THEN Returns(<<>>)
        ELSE IF \E i \in 1..Len(data.result.value) : data.result.value[i] = MalformedSong
        THEN Raises("AttributeError")
        ELSE Returns(data.result.value)

\* NeteaseAPI.search_songs
search_songs(exchange) == Guarded(search_songs_try(exchange))

(***************************************************************************)
(* The exchanges of the lookup specification.                              *)
(***************************************************************************)
YrcLines ==
    {YrcJson,
     YrcTimed(2000, <<Marker, " ", Marker, "a", "b", " ">>),
     YrcTimed(1000, <<Marker, "c", Marker, "d">>),
     YrcTimed(500, <<"[", "x", "]", "O", "P", ":", " ", "x">>),
     YrcTimed(3000, <<Marker, " ">>),
     YrcOther(T_xy)}

LrcLines ==
    {<<Segment(0, 2, <<0, 0>>, <<" ", "a", "b", " ">>)>>,
     <<Segment(0, 1, <<5, 0>>, T_cd)>>,
     <<Segment(0, 1, <<5, 0, 0>>, T_dcba)>>,
     <<Segment(0, 0, <<0, 0>>, <<"o", "p", " ", FullwidthColon, "x">>)>>,
     <<Segment(0, 3, <<0, 0>>, <<>>), Segment(0, 0, <<1>>, T_cd),
       Segment(0, 4, <<0, 0>>, <<" ">>)>>,
     <<>>}

\* the raw texts of up to MaxRawLines physical lines
RawTexts(lines) == UNION {[1..n -> lines] : n \in 0..MaxRawLines}

LyricFields(lines) == {NoField, NullField} \cup {Field(raw) : raw \in RawTexts(lines)}

LyricExchanges ==
    {Exchange("ok", 200, Body("object", 200, yrc, lrc, NoField)) :
         yrc \in LyricFields(YrcLines), lrc \in LyricFields(LrcLines)}

SongLists == {<<>>, <<"s1", "s2">>, <<"s1", MalformedSong>>}

SearchExchanges ==
    {Exchange("ok", 200, Body("object", 200, NoField, NoField, result)) :
         result \in {NoField, NullField} \cup {Field(songs) : songs \in SongLists}}

\* the exchanges both calls fail in the same way
FailedExchanges ==
    {Exchange("timeout", 0, NoBody), Exchange("client_error", 0, NoBody),
     Exchange("ok", 500, NoBody),
     Exchange("ok", 200, Body("not_json", 0, NoField, NoField, NoField)),
     Exchange("ok", 200, Body("array", 0, NoField, NoField, NoField)),
     Exchange("ok", 200, Body("object", 404, NoField, NoField, NoField))}

\* a call of the lookup collaborator: the request, its exchange, its outcome
Call(op, exchange, done, outcome) ==
    [op |-> op, exchange |-> exchange, done |-> done, outcome |-> outcome]
NoCall == Call("none", Exchange("none", 0, NoBody), FALSE, Returns(<<>>))

Calls ==
    {Call("get_lyrics", e, FALSE, Returns(<<>>)) : e \in LyricExchanges \cup FailedExchanges}
        \cup {Call("search_songs", e, FALSE, Returns(<<>>)) :
                  e \in SearchExchanges \cup FailedExchanges}

(***************************************************************************)
(* State.                                                                  *)
(***************************************************************************)
VARIABLES
    sessions,         \* LyricGame.sessions: user id -> LyricGameSession
    active_sessions,  \* LyricGamePlugin.active_sessions
    cache,            \* the plugin's key-value store, lyrics_<song id>
    now,              \* the wall clock (time.time() and datetime.now())
    pc,               \* per user: where that user's handler is suspended
    loc,              \* per user: the suspended handler's local variables
    reply,            \* the last message a handler yielded, and to whom
    command,          \* history: the command each user's candidate list came from
    lookup,           \* the lookup collaborator's current call: response and result
    matcher           \* the scorer's or the locator's current call: inputs and result

vars == <<sessions, active_sessions, cache, now, pc, loc, reply, command, lookup, matcher>>

\* LyricGameSession.__init__
NewSession(t) ==
    [song_id |-> NoSong, lyrics |-> <<>>, position |-> 0, in_song |-> FALSE,
     last_time |-> 0, last_active |-> t, selecting_song |-> FALSE,
     song_candidates |-> <<>>, start_lyric_keyword |-> <<>>]

NoText == <<>>
Reply(kind, line, similarity, expected) ==
    [kind |-> kind, line |-> line, similarity |-> similarity, expected |-> expected]
Notice(kind) == Reply(kind, NoText, -1, NoText)
NoReply == Notice("none")
\* event.plain_result(msg) yielded by a handler of user u
To(u, msg) == [user |-> u, msg |-> msg]

\* a handler's locals: the selected song, the fetched lyrics, the lyric keyword
\* of a "from" command, and the session object it holds when the sweep has
\* meanwhile removed that object from the map
IdleLoc == [song |-> NoSong, lyrics |-> <<>>, kw |-> <<>>, stale |-> <<>>]

(***************************************************************************)
(* LyricGame.find_position, and the calls of the matcher specification:    *)
(* calculate_similarity on two texts, find_position on a text, a line      *)
(* sequence and a session.                                                 *)
(***************************************************************************)
\* the longest text the scorer is called on, and the longest line sequence
\* the locator is called on
MaxTextLen == 3
MaxLines == 5

\* the lowest index of range(start, end) whose line matches, -1 when none does
RECURSIVE ScanRange(_, _, _, _)
ScanRange(user_input, lyrics, start, end) ==
    IF start >= end THEN -1
    ELSE IF is_match(user_input, lyrics[start + 1].text) THEN start
    ELSE ScanRange(user_input, lyrics, start + 1, end)

Max2(a, b) == IF a >= b THEN a ELSE b
Min2(a, b) == IF a <= b THEN a ELSE b

NearbyMatch_first_of_window(user_input, lyrics, position) == Max2(0, position - 3)
\* strategy 3: range(max(0, position - 3), min(len(lyrics), position + 10))
NearbyMatch(user_input, lyrics, position) ==
    ScanRange(user_input, lyrics, Max2(0, position - 3),
              Min2(Len(lyrics), position + 10))

\* LyricGame.find_position
find_position(user_input, lyrics, session) ==
    IF lyrics = <<>> THEN -1
    ELSE IF /\ session.in_song
            /\ session.position < Len(lyrics)
            /\ is_match(user_input, lyrics[session.position + 1].text)
    THEN session.position
    ELSE IF /\ session.in_song
            /\ session.position + 1 < Len(lyrics)
            /\ is_match(user_input, lyrics[session.position + 2].text)
    THEN session.position + 1
    ELSE IF /\ session.in_song
            /\ NearbyMatch(user_input, lyrics, session.position) # -1
    THEN NearbyMatch(user_input, lyrics, session.position)
    ELSE ScanRange(user_input, lyrics, 0, Len(lyrics))

\* the texts of up to MaxTextLen characters: two letters, a capital and a
\* character clean_text drops
ScoreChars == {"a", "b", "A", " "}
ScoreTexts == UNION {[1..n -> ScoreChars] : n \in 0..MaxTextLen}

\* the line sequences of up to MaxLines lines, of a text T_cd matches and a
\* text it does not match
LineSequences ==
    UNION {[1..n -> {Line(0, T_cd), Line(0, T_xy)}] : n \in 0..MaxLines}

\* a session as find_position reads it
LocatorSession(in_song, position) ==
    [NewSession(StartTime) EXCEPT !.in_song = in_song, !.position = position]

\* a call of the scorer or the locator: its arguments and its result
MatcherCall(op, text1, text2, lyrics, session, done, result) ==
    [op |-> op, text1 |-> text1, text2 |-> text2, lyrics |-> lyrics,
     session |-> session, done |-> done, result |-> result]
NoMatcherCall ==
    MatcherCall("none", NoText, NoText, <<>>, LocatorSession(FALSE, 0), FALSE, -1)

MatcherCalls ==
    {MatcherCall("calculate_similarity", text1, text2, <<>>,
                 LocatorSession(FALSE, 0), FALSE, -1) :
         text1 \in ScoreTexts, text2 \in ScoreTexts}
        \cup UNION {{MatcherCall("find_position", T_cd, NoText, lyrics,
                                 LocatorSession(in_song, position), FALSE, -1) :
                         in_song \in BOOLEAN, position \in 0..Len(lyrics)} :
                    lyrics \in LineSequences}

\* the plugin after construction: no session, nothing cached, no handler
\* running
Constructed ==
    /\ sessions = [u \in {} |-> NewSession(StartTime)]
    /\ active_sessions = {}
    /\ cache = [s \in Songs |-> <<>>]
    /\ now = StartTime
    /\ pc = [u \in Users |-> "idle"]
    /\ loc = [u \in Users |-> IdleLoc]
    /\ reply = To("nobody", NoReply)
    /\ command = [u \in Users |-> "none"]

Init ==
    /\ Constructed
    /\ lookup = NoCall
    /\ matcher = NoMatcherCall

\* dict assignment sessions[u] = s
Put(S, u, s) == [x \in (DOMAIN S) \cup {u} |-> IF x = u THEN s ELSE S[x]]
\* del sessions[u] for every u of a set
Remove(S, gone) == [x \in (DOMAIN S) \ gone |-> S[x]]

\* LyricGame.get_session: the session map after the call
get_session(S, u, t) ==
    IF u \notin DOMAIN S THEN Put(S, u, NewSession(t))
    ELSE [S EXCEPT ![u].last_active = t]

(***************************************************************************)
(* LyricGame.handle: one turn of the game on the user's session s (the     *)
(* one get_session has just returned) at time t.                           *)
(***************************************************************************)
NextPosition_by_one(position) == position + 1
NextPosition_by_three(position) == position + 3
\* position += 2: skip the line the engine answers with
NextPosition(position) == position + 2

\* the match branch: is there a line left for the engine to answer with
HasResponderLine(s) == s.position + 1 < Len(s.lyrics)

TimedOut_since_last_active(s, t) == t - s.last_active > session_timeout
\* the timeout reset at the top of handle
TimedOut(s, t) == t - s.last_time > session_timeout

\* "if session.position >= len(session.lyrics)": no line is left to sing
SongFinished(s) == s.position >= Len(s.lyrics)

\* the match branch when the responder line was the song's last: the game
\* ends in the same turn, the reply carries the line and the notice
CompletedWithLastLine_two_turns(s, next_line) ==
    [session |-> s, reply |-> Reply("next_line", next_line, -1, NoText)]
CompletedWithLastLine_stays_in_song(s, next_line) ==
    [session |-> s,
     reply |-> Reply("song_completed_with_last_line", next_line, -1, NoText)]
CompletedWithLastLine(s, next_line) ==
    [session |-> [s EXCEPT !.in_song = FALSE],
     reply |-> Reply("song_completed_with_last_line", next_line, -1, NoText)]

LastLineSung_stays_in_song(s) ==
    [session |-> s, reply |-> Notice("song_completed")]
\* the match branch without a responder line: the song is over
LastLineSung(s) ==
    [session |-> [s EXCEPT !.in_song = FALSE], reply |-> Notice("song_completed")]

MatchFailed_ends_game(s, user_input, expected) ==
    [session |-> [s EXCEPT !.in_song = FALSE],
     reply |-> Reply("match_failed", NoText,
                     calculate_similarity(user_input, expected), expected)]
\* the no-match branch: the session stays where it is
MatchFailed(s, user_input, expected) ==
    [session |-> s,
     reply |-> Reply("match_failed", NoText,
                     calculate_similarity(user_input, expected), expected)]

handle(s, user_input, t) ==
    LET s1 == [s EXCEPT !.in_song = IF TimedOut(s, t) THEN FALSE ELSE @,
                        !.last_time = t]
    IN  IF ~s1.in_song THEN [session |-> s1, reply |-> NoReply]
        ELSE IF SongFinished(s1)
        THEN [session |-> [s1 EXCEPT !.in_song = FALSE],
              reply |-> Notice("song_completed")]
        ELSE LET expected == s1.lyrics[s1.position + 1].text
             IN  IF is_match(user_input, expected)
                 THEN IF HasResponderLine(s1)
                      THEN LET next_line == s1.lyrics[s1.position + 2].text
                               s2 == [s1 EXCEPT !.position = NextPosition(@)]
                           IN  IF SongFinished(s2)
                               THEN CompletedWithLastLine(s2, next_line)
                               ELSE [session |-> s2,
                                     reply |-> Reply("next_line", next_line, -1, NoText)]
                      ELSE LastLineSung(s1)
                 ELSE MatchFailed(s1, user_input, expected)

(***************************************************************************)
(* LyricGamePlugin.handle_all_messages for a non-empty, non-numeric        *)
(* message (an empty or all-digit message returns at once).  The handler   *)
(* has no suspension point that another handler's writes could cross.      *)
(* The host hands a user's next message to the plugin when that user's     *)
(* previous one has been handled (pc[u] = "idle").                         *)
(***************************************************************************)
\* LyricGame.exit_session through the exit branch of handle_all_messages
ExitGame(u) ==
    /\ active_sessions' = active_sessions \ {u}
    /\ IF u \in DOMAIN sessions
       THEN /\ sessions' = Remove(sessions, {u})
            /\ reply' = To(u, Notice("exit_game"))
       ELSE UNCHANGED <<sessions, reply>>
    /\ UNCHANGED <<cache, now, pc, loc, command, lookup, matcher>>

\* the turn branch of handle_all_messages
Turn(u, message) ==
    LET S1 == get_session(sessions, u, now)
    IN  IF S1[u].selecting_song
        THEN /\ sessions' = S1
             /\ UNCHANGED <<active_sessions, cache, now, pc, loc, reply, command, lookup, matcher>>
        ELSE LET h == handle(S1[u], message, now)
             IN  /\ sessions' = [S1 EXCEPT ![u] = h.session]
                 /\ reply' = To(u, IF h.reply # NoReply THEN h.reply
                                   ELSE Notice("state_error"))
                 /\ active_sessions' =
                        IF h.reply = NoReply \/ ~h.session.in_song
                        THEN active_sessions \ {u} ELSE active_sessions
                 /\ UNCHANGED <<cache, now, pc, loc, command, lookup, matcher>>

handle_all_messages(u, message) ==
    /\ pc[u] = "idle"
    /\ u \in active_sessions
    /\ IF message \in ExitWords THEN ExitGame(u) ELSE Turn(u, message)

\* LyricGame.handle raises where it formats its reply from a configured
\* template (a template naming an unknown field): the except Exception
\* clause of handle_all_messages
turn_failed(u, message) ==
    /\ pc[u] = "idle"
    /\ u \in active_sessions
    /\ message \notin ExitWords
    /\ LET S1 == get_session(sessions, u, now)
           h == handle(S1[u], message, now)
       IN  /\ ~S1[u].selecting_song
           /\ h.reply.kind \in {"match_failed", "song_completed_with_last_line"}
           /\ sessions' = [S1 EXCEPT ![u] = h.session]
    /\ reply' = To(u, Notice("turn_error"))
    /\ active_sessions' = active_sessions \ {u}
    /\ UNCHANGED <<cache, now, pc, loc, command, lookup, matcher>>

(***************************************************************************)
(* A suspended handler keeps the session object get_session gave it.  The  *)
(* sweep may delete that object from the map meanwhile: the handler then   *)
(* reads and writes an object the map no longer holds.                     *)
(***************************************************************************)
Held(u) == IF loc[u].stale # <<>> THEN loc[u].stale[1] ELSE sessions[u]

\* the session map after the handler of u has written s to its session object
StoreHeld(u, s) == IF loc[u].stale # <<>> THEN sessions ELSE [sessions EXCEPT ![u] = s]

\* the handler of u returns
Return(u) ==
    /\ pc' = [pc EXCEPT ![u] = "idle"]
    /\ loc' = [loc EXCEPT ![u] = IdleLoc]

(***************************************************************************)
(* LyricGamePlugin.handle_lyric_search and handle_lyric_start_from, each   *)
(* in two steps: up to the await of search_songs, and from its result on.  *)
(***************************************************************************)
handle_lyric_search_begin(u, keyword) ==
    /\ pc[u] = "idle"
    /\ IF keyword = NoText
       THEN /\ reply' = To(u, Notice("empty_keyword"))
            /\ UNCHANGED <<sessions, active_sessions, cache, now, pc, loc, command, lookup, matcher>>
       ELSE /\ sessions' = get_session(sessions, u, now)
            /\ pc' = [pc EXCEPT ![u] = "search_wait"]
            /\ UNCHANGED <<active_sessions, cache, now, loc, reply, command, lookup, matcher>>

handle_lyric_start_from_begin(u, song_keyword, lyric_keyword) ==
    /\ pc[u] = "idle"
    /\ IF song_keyword = NoText \/ lyric_keyword = NoText
       THEN /\ reply' = To(u, Notice("from_usage"))
            /\ UNCHANGED <<sessions, active_sessions, cache, now, pc, loc, command, lookup, matcher>>
       ELSE /\ sessions' = get_session(sessions, u, now)
            /\ pc' = [pc EXCEPT ![u] = "from_wait"]
            /\ loc' = [loc EXCEPT ![u].kw = lyric_keyword]
            /\ UNCHANGED <<active_sessions, cache, now, reply, command, lookup, matcher>>

\* the session after the search handler has stored the candidates
SearchStored(s, songs) ==
    [s EXCEPT !.selecting_song = TRUE, !.song_candidates = songs]

\* the session after the from handler has stored candidates and keyword
FromStored(s, songs, lyric_keyword) ==
    [s EXCEPT !.selecting_song = TRUE, !.song_candidates = songs,
              !.start_lyric_keyword = lyric_keyword]

handle_lyric_search_end(u, songs) ==
    /\ pc[u] = "search_wait"
    /\ IF songs = <<>>
       THEN /\ reply' = To(u, Notice("no_songs_found"))
            /\ UNCHANGED <<sessions, active_sessions, command, lookup, matcher>>
       ELSE /\ sessions' = StoreHeld(u, SearchStored(Held(u), songs))
            /\ active_sessions' = active_sessions \cup {u}
            /\ reply' = To(u, Notice("song_selection"))
            /\ command' = [command EXCEPT ![u] = "search"]
            /\ UNCHANGED <<lookup, matcher>>
    /\ Return(u)
    /\ UNCHANGED <<cache, now>>

handle_lyric_start_from_end(u, songs) ==
    /\ pc[u] = "from_wait"
    /\ IF songs = <<>>
       THEN /\ reply' = To(u, Notice("no_songs_found"))
            /\ UNCHANGED <<sessions, active_sessions, command, lookup, matcher>>
       ELSE /\ sessions' = StoreHeld(u, FromStored(Held(u), songs, loc[u].kw))
            /\ active_sessions' = active_sessions \cup {u}
            /\ reply' = To(u, Notice("song_selection"))
            /\ command' = [command EXCEPT ![u] = "from"]
            /\ UNCHANGED <<lookup, matcher>>
    /\ Return(u)
    /\ UNCHANGED <<cache, now>>

\* search_songs raises (a payload of an unexpected shape): except Exception
search_failed(u) ==
    /\ pc[u] \in {"search_wait", "from_wait"}
    /\ reply' = To(u, Notice("search_failed"))
    /\ Return(u)
    /\ UNCHANGED <<sessions, active_sessions, cache, now, command, lookup, matcher>>

(***************************************************************************)
(* LyricGamePlugin.handle_number_selection.  It suspends in                *)
(* LyricGame.get_lyrics: at the cache read, at the lookup, at the cache    *)
(* write.                                                                  *)
(***************************************************************************)
ValidChoice_no_lower_bound(choice, count) == choice <= count
\* 1 <= choice <= len(session.song_candidates)
ValidChoice(choice, count) == 1 <= choice /\ choice <= count

\* Python's list[i]: a negative index counts from the end
PyIndex(list, i) == IF i < 0 THEN list[Len(list) + i + 1] ELSE list[i + 1]

\* selected_song = session.song_candidates[choice - 1]
SelectedSong(song_candidates, choice) == PyIndex(song_candidates, choice - 1)

\* the session after a valid choice, before the lyrics are fetched
ChoiceTaken(s) == [s EXCEPT !.selecting_song = FALSE, !.song_candidates = <<>>]

\* the loop over enumerate(lyrics): the first index (0-based) whose line
\* matches the keyword, -1 when none does
RECURSIVE FoundFrom(_, _, _)
FoundFrom(start_lyric_keyword, lyrics, idx) ==
    IF idx >= Len(lyrics) THEN -1
    ELSE IF is_match(start_lyric_keyword, lyrics[idx + 1].text) THEN idx
    ELSE FoundFrom(start_lyric_keyword, lyrics, idx + 1)

found_position(start_lyric_keyword, lyrics) == FoundFrom(start_lyric_keyword, lyrics, 0)

StartGame_lyrics_not_stored(s, song, lyrics, start_position, t) ==
    [s EXCEPT !.song_id = song, !.position = start_position,
              !.in_song = TRUE, !.last_time = t]
StartGame_keeps_last_time(s, song, lyrics, start_position, t) ==
    [s EXCEPT !.song_id = song, !.lyrics = lyrics, !.position = start_position,
              !.in_song = TRUE]
\* "initialise the session": lines 900-905
StartGame(s, song, lyrics, start_position, t) ==
    [s EXCEPT !.song_id = song, !.lyrics = lyrics, !.position = start_position,
              !.in_song = TRUE, !.last_time = t]

\* the first line the engine shows, with the template for the start position
StartReply(lyrics, start_position) ==
    Reply(IF start_position > 0 THEN "start_from_line" ELSE "game_start",
          lyrics[start_position + 1].text, -1, NoText)

\* from "if not lyrics" to the end of the handler
SelectionDone(u, lyrics) ==
    LET s == Held(u)
        start_lyric_keyword == s.start_lyric_keyword
    IN  /\ IF lyrics = <<>>
           THEN /\ reply' = To(u, Notice("no_lyrics"))
                /\ active_sessions' = active_sessions \ {u}
                /\ UNCHANGED sessions
           ELSE IF start_lyric_keyword # NoText
           THEN LET found == found_position(start_lyric_keyword, lyrics)
                IN  IF found = -1
                    THEN /\ sessions' = StoreHeld(u, [s EXCEPT !.start_lyric_keyword = NoText])
                         /\ reply' = To(u, Notice("line_not_found"))
                         /\ active_sessions' = active_sessions \ {u}
                    ELSE /\ sessions' = StoreHeld(u,
                                StartGame([s EXCEPT !.start_lyric_keyword = NoText],
                                          loc[u].song, lyrics, found, now))
                         /\ reply' = To(u, StartReply(lyrics, found))
                         /\ UNCHANGED active_sessions
           ELSE /\ sessions' = StoreHeld(u, StartGame(s, loc[u].song, lyrics, 0, now))
                /\ reply' = To(u, StartReply(lyrics, 0))
                /\ UNCHANGED active_sessions
        /\ Return(u)
        /\ UNCHANGED <<command, lookup, matcher>>

handle_number_selection(u, choice) ==
    /\ pc[u] = "idle"
    /\ u \in active_sessions
    /\ LET S1 == get_session(sessions, u, now)
           s == S1[u]
       IN  IF ~s.selecting_song \/ s.song_candidates = <<>>
           THEN /\ sessions' = S1
                /\ UNCHANGED <<pc, loc, reply>>
           ELSE IF ValidChoice(choice, Len(s.song_candidates))
           THEN /\ sessions' = [S1 EXCEPT ![u] = ChoiceTaken(s)]
                /\ pc' = [pc EXCEPT ![u] = "cache_read"]
                /\ loc' = [loc EXCEPT ![u].song = SelectedSong(s.song_candidates, choice)]
                /\ UNCHANGED reply
           ELSE /\ sessions' = S1
                /\ reply' = To(u, Notice("invalid_number"))
                /\ UNCHANGED <<pc, loc>>
    /\ UNCHANGED <<active_sessions, cache, now, command, lookup, matcher>>

\* LyricGame.get_lyrics: the cache read returns
get_lyrics_cached(u) ==
    /\ pc[u] = "cache_read"
    /\ IF cache[loc[u].song] # <<>>
       THEN SelectionDone(u, cache[loc[u].song])
       ELSE /\ pc' = [pc EXCEPT ![u] = "lookup"]
            /\ UNCHANGED <<sessions, active_sessions, loc, reply, command, lookup, matcher>>
    /\ UNCHANGED <<cache, now>>

\* LyricGame.get_lyrics: the lookup returns the song's lines, or nothing
get_lyrics_lookup(u, lyrics) ==
    /\ pc[u] = "lookup"
    /\ IF lyrics # <<>>
       THEN /\ pc' = [pc EXCEPT ![u] = "cache_write"]
            /\ loc' = [loc EXCEPT ![u].lyrics = lyrics]
            /\ UNCHANGED <<sessions, active_sessions, reply, command, lookup, matcher>>
       ELSE SelectionDone(u, lyrics)
    /\ UNCHANGED <<cache, now>>

\* LyricGame.get_lyrics: the cache write returns, the handler runs to its end
get_lyrics_store(u) ==
    /\ pc[u] = "cache_write"
    /\ cache' = [cache EXCEPT ![loc[u].song] = loc[u].lyrics]
    /\ SelectionDone(u, loc[u].lyrics)
    /\ UNCHANGED now

\* api.get_lyrics raises (a payload of an unexpected shape): the except
\* Exception clause of handle_number_selection
selection_failed(u) ==
    /\ pc[u] = "lookup"
    /\ reply' = To(u, Notice("selection_error"))
    /\ active_sessions' = active_sessions \ {u}
    /\ Return(u)
    /\ UNCHANGED <<sessions, cache, now, command, lookup, matcher>>

(***************************************************************************)
(* LyricGame._cleanup_sessions: one pass of the periodic sweep.            *)
(***************************************************************************)
Expired_however_in_song(S, t) ==
    {u \in DOMAIN S : t - S[u].last_active > session_timeout * 2}
\* the users the sweep collects: last active more than twice the timeout
\* ago and not in a game
Expired(S, t) ==
    {u \in DOMAIN S : t - S[u].last_active > session_timeout * 2 /\ ~S[u].in_song}

cleanup_sessions ==
    LET expired_users == Expired(sessions, now)
    IN  /\ expired_users # {}
        /\ sessions' = Remove(sessions, expired_users)
        /\ loc' = [u \in Users |->
                     IF u \in expired_users /\ pc[u] # "idle"
                     THEN [loc[u] EXCEPT !.stale = <<sessions[u]>>] ELSE loc[u]]
        /\ UNCHANGED <<active_sessions, cache, now, pc, reply, command, lookup, matcher>>

\* time passes
Tick ==
    /\ now < StartTime + MaxTicks * TickSeconds
    /\ now' = now + TickSeconds
    /\ UNCHANGED <<sessions, active_sessions, cache, pc, loc, reply, command, lookup, matcher>>

\* everything the handlers of user u can do next
UserStep(u) ==
    \/ \E keyword \in {NoText, T_cd} : handle_lyric_search_begin(u, keyword)
    \/ \E songs \in SearchOutcomes : handle_lyric_search_end(u, songs)
    \/ \E lyric_keyword \in Keywords \cup {NoText} :
           handle_lyric_start_from_begin(u, T_cd, lyric_keyword)
    \/ \E songs \in SearchOutcomes : handle_lyric_start_from_end(u, songs)
    \/ search_failed(u)
    \/ \E choice \in Choices : handle_number_selection(u, choice)
    \/ get_lyrics_cached(u)
    \/ \E lyrics \in {LyricsOf(loc[u].song), <<>>} : get_lyrics_lookup(u, lyrics)
    \/ selection_failed(u)
    \/ get_lyrics_store(u)
    \/ \E message \in Messages : handle_all_messages(u, message)
    \/ \E message \in Messages : turn_failed(u, message)

\* one user playing, the sweep and the clock
Next ==
    \/ \E u \in Players : UserStep(u)
    \/ cleanup_sessions
    \/ Tick

Spec == Init /\ [][Next]_vars

(***************************************************************************)
(* The sweep on a store of several sessions: every user has a session that *)
(* is idle, selecting or in a game and was last active up to MaxTicks      *)
(* ticks before StartTime; then the clock runs and the sweep passes.       *)
(***************************************************************************)
SweepSessions ==
    UNION {{NewSession(t),
            SearchStored(NewSession(t), <<"s2">>),
            [StartGame(NewSession(t), "s1", LyricsOf("s1"), 0, t) EXCEPT !.last_active = t]} :
           t \in {StartTime - i * TickSeconds : i \in 0..MaxTicks}}

SweepInit ==
    /\ sessions \in [Users -> SweepSessions]
    /\ active_sessions =
           {u \in Users : sessions[u].selecting_song \/ sessions[u].in_song}
    /\ cache = [s \in Songs |->
                   IF \E u \in Users : sessions[u].song_id = s THEN LyricsOf(s) ELSE <<>>]
    /\ now = StartTime
    /\ pc = [u \in Users |-> "idle"]
    /\ loc = [u \in Users |-> IdleLoc]
    /\ reply = To("nobody", NoReply)
    /\ command = [u \in Users |-> IF u \in active_sessions THEN "search" ELSE "none"]
    /\ lookup = NoCall
    /\ matcher = NoMatcherCall

SweepNext ==
    \/ cleanup_sessions
    \/ Tick

SweepSpec == SweepInit /\ [][SweepNext]_vars

(***************************************************************************)
(* The lookup collaborator on its own: one call, get_lyrics or             *)
(* search_songs, on one exchange.                                          *)
(***************************************************************************)
LookupInit ==
    /\ Constructed
    /\ lookup \in Calls
    /\ matcher = NoMatcherCall

get_lyrics_call ==
    /\ lookup.op = "get_lyrics"
    /\ ~lookup.done
    /\ lookup' = [lookup EXCEPT !.done = TRUE,
                                !.outcome = get_lyrics(lookup.exchange)]
    /\ UNCHANGED <<sessions, active_sessions, cache, now, pc, loc, reply, command, matcher>>

search_songs_call ==
    /\ lookup.op = "search_songs"
    /\ ~lookup.done
    /\ lookup' = [lookup EXCEPT !.done = TRUE,
                                !.outcome = search_songs(lookup.exchange)]
    /\ UNCHANGED <<sessions, active_sessions, cache, now, pc, loc, reply, command, matcher>>

LookupNext ==
    \/ get_lyrics_call
    \/ search_songs_call

LookupSpec == LookupInit /\ [][LookupNext]_vars

(***************************************************************************)
(* The scorer and the locator on their own: one call on its arguments.     *)
(***************************************************************************)
MatcherInit ==
    /\ Constructed
    /\ lookup = NoCall
    /\ matcher \in MatcherCalls

calculate_similarity_call ==
    /\ matcher.op = "calculate_similarity"
    /\ ~matcher.done
    /\ matcher' = [matcher EXCEPT
                      !.done = TRUE,
                      !.result = calculate_similarity(matcher.text1, matcher.text2)]
    /\ UNCHANGED <<sessions, active_sessions, cache, now, pc, loc, reply, command, lookup>>

find_position_call ==
    /\ matcher.op = "find_position"
    /\ ~matcher.done
    /\ matcher' = [matcher EXCEPT
                      !.done = TRUE,
                      !.result = find_position(matcher.text1, matcher.lyrics,
                                               matcher.session)]
    /\ UNCHANGED <<sessions, active_sessions, cache, now, pc, loc, reply, command, lookup>>

MatcherNext ==
    \/ calculate_similarity_call
    \/ find_position_call

MatcherSpec == MatcherInit /\ [][MatcherNext]_vars

(***************************************************************************)
(* The lyric cache under several users: every user has a candidate list    *)
(* and the selection handlers of the users interleave at their awaits.     *)
(***************************************************************************)
CacheInit ==
    /\ sessions = [u \in Users |->
                      SearchStored(NewSession(StartTime), <<"s1", "s2", "s3">>)]
    /\ active_sessions = Users
    /\ cache = [s \in Songs |-> <<>>]
    /\ now = StartTime
    /\ pc = [u \in Users |-> "idle"]
    /\ loc = [u \in Users |-> IdleLoc]
    /\ reply = To("nobody", NoReply)
    /\ command = [u \in Users |-> "search"]
    /\ lookup = NoCall
    /\ matcher = NoMatcherCall

\* everything the selection handler of user u can do next
SelectionStep(u) ==
    \/ \E choice \in Choices : handle_number_selection(u, choice)
    \/ get_lyrics_cached(u)
    \/ \E lyrics \in {LyricsOf(loc[u].song), <<>>} : get_lyrics_lookup(u, lyrics)
    \/ selection_failed(u)
    \/ get_lyrics_store(u)

CacheNext == \E u \in Users : SelectionStep(u)

CacheSpec == CacheInit /\ [][CacheNext]_vars

(***************************************************************************)
(* Properties.                                                             *)
(***************************************************************************)
\* every session object: those of the map and those a suspended handler
\* still holds after the sweep removed them
AllSessions ==
    {sessions[u] : u \in DOMAIN sessions}
        \cup {loc[u].stale[1] : u \in {x \in Users : loc[x].stale # <<>>}}

\* the step hands message m of user u to LyricGame.handle
Submits(u, m) ==
    /\ handle_all_messages(u, m)
    /\ m \notin ExitWords
    /\ u \in DOMAIN sessions
    /\ ~sessions[u].selecting_song

\* u's session is in a game that has not timed out and expects a line
Singing(u) ==
    /\ u \in DOMAIN sessions
    /\ sessions[u].in_song
    /\ ~TimedOut(sessions[u], now)
    /\ sessions[u].position < Len(sessions[u].lyrics)

\* the text of source line i (0-based) of u's song
TextAt(u, i) == sessions[u].lyrics[i + 1].text

\* m matches the line u is expected to sing
Matches(u, m) == is_match(m, TextAt(u, sessions[u].position))

\* C1: a matching submission at position p with p + 1 < len(lines) is answered
\* with lines[p+1].text and moves position to exactly p + 2; the lines and the
\* current song stay as they are.
C1_MatchAdvancesByTwo ==
    [][\A u \in Users, m \in Messages :
         (/\ Submits(u, m)
          /\ Singing(u)
          /\ sessions[u].position + 1 < Len(sessions[u].lyrics)
          /\ Matches(u, m))
         => (/\ reply'.user = u
             /\ reply'.msg.line = TextAt(u, sessions[u].position + 1)
             /\ sessions'[u].position = sessions[u].position + 2
             /\ sessions'[u].lyrics = sessions[u].lyrics
             /\ sessions'[u].song_id = sessions[u].song_id)]_vars

C1_Witness ==
    \E u \in DOMAIN sessions :
        /\ reply = To(u, Reply("next_line", T_cd, -1, NoText))
        /\ sessions[u].in_song
        /\ sessions[u].position = 2
        /\ sessions[u].song_id = "s1"

\* C2: when a matching submission moves position to len(lines) or beyond, the
\* same turn ends the game and its one reply carries both the responder line
\* and the completion notice; otherwise the game goes on and the reply is the
\* responder line alone.
C2_CompletionInSameTurn ==
    [][\A u \in Users, m \in Messages :
         (/\ Submits(u, m)
          /\ Singing(u)
          /\ sessions[u].position + 1 < Len(sessions[u].lyrics)
          /\ Matches(u, m))
         => IF sessions'[u].position >= Len(sessions'[u].lyrics)
            THEN /\ ~sessions'[u].in_song
                 /\ reply' = To(u, Reply("song_completed_with_last_line",
                                         TextAt(u, sessions[u].position + 1), -1, NoText))
            ELSE /\ sessions'[u].in_song
                 /\ reply'.msg.kind = "next_line"]_vars

C2_Witness ==
    \E u \in DOMAIN sessions :
        /\ reply.user = u
        /\ reply.msg.kind = "song_completed_with_last_line"
        /\ ~sessions[u].in_song
        /\ sessions[u].position >= Len(sessions[u].lyrics)

\* C3: a matching submission at the last line (no responder line left) ends
\* the game, leaves position where it was and is answered with the completion
\* notice alone.
C3_LastLineCompletes ==
    [][\A u \in Users, m \in Messages :
         (/\ Submits(u, m)
          /\ Singing(u)
          /\ sessions[u].position + 1 >= Len(sessions[u].lyrics)
          /\ Matches(u, m))
         => (/\ ~sessions'[u].in_song
             /\ sessions'[u].position = sessions[u].position
             /\ reply' = To(u, Notice("song_completed")))]_vars

C3_Witness ==
    \E u \in DOMAIN sessions :
        /\ reply = To(u, Notice("song_completed"))
        /\ ~sessions[u].in_song
        /\ sessions[u].position + 1 = Len(sessions[u].lyrics)

\* C4: a submission that does not match the expected line changes none of
\* position, lines, current song, in_song and selecting, and is answered with
\* a failure reply carrying the computed similarity and the expected line.
C4_MismatchKeepsState ==
    [][\A u \in Users, m \in Messages :
         (/\ Submits(u, m)
          /\ Singing(u)
          /\ ~Matches(u, m))
         => (/\ sessions'[u].position = sessions[u].position
             /\ sessions'[u].lyrics = sessions[u].lyrics
             /\ sessions'[u].song_id = sessions[u].song_id
             /\ sessions'[u].in_song
             /\ ~sessions'[u].selecting_song
             /\ reply'.user = u
             /\ reply'.msg.kind = "match_failed"
             /\ reply'.msg.similarity =
                    calculate_similarity(m, TextAt(u, sessions[u].position))
             /\ reply'.msg.expected = TextAt(u, sessions[u].position))]_vars

C4_Witness ==
    \E u \in DOMAIN sessions :
        /\ reply.user = u
        /\ reply.msg.kind = "match_failed"
        /\ reply.msg.similarity = 25
        /\ sessions[u].in_song
        /\ sessions[u].position = 2

\* C5: in every reachable state every session has 0 <= position <= len(lines).
C5_PositionInRange ==
    \A s \in AllSessions : 0 <= s.position /\ s.position <= Len(s.lyrics)

C5_Witness ==
    \E u \in DOMAIN sessions :
        /\ sessions[u].lyrics # <<>>
        /\ sessions[u].position = Len(sessions[u].lyrics)

\* C6: in every reachable state no session has selecting and in_song both
\* true, also after a search or from command of a user who is in a game.
C6_NeverSelectingAndInSong ==
    \A s \in AllSessions : ~(s.selecting_song /\ s.in_song)

\* C7: in every reachable state a session with in_song = true has lines.
C7_InSongHasLines ==
    \A s \in AllSessions : s.in_song => s.lyrics # <<>>

C7_Witness ==
    \E u \in DOMAIN sessions : sessions[u].in_song /\ Len(sessions[u].lyrics) = 3

\* C8: a choice k outside 1..n of a session selecting among n candidates is
\* answered with the re-prompt and changes nothing of the session but its
\* activity stamp; no cache read and no lookup is started.  The user of a
\* selecting session is always routed to the selection handler.
C8_InvalidChoiceRejected ==
    /\ [](\A u \in DOMAIN sessions :
            sessions[u].selecting_song => u \in active_sessions)
    /\ [][\A u \in Users, k \in Choices :
            (/\ handle_number_selection(u, k)
             /\ u \in DOMAIN sessions
             /\ sessions[u].selecting_song
             /\ sessions[u].song_candidates # <<>>
             /\ (k < 1 \/ k > Len(sessions[u].song_candidates)))
            => (/\ reply' = To(u, Notice("invalid_number"))
                /\ sessions' = [sessions EXCEPT ![u].last_active = now]
                /\ cache' = cache
                /\ pc'[u] = "idle"
                /\ loc' = loc)]_vars

C8_Witness ==
    \E u \in DOMAIN sessions :
        /\ reply = To(u, Notice("invalid_number"))
        /\ sessions[u].selecting_song
        /\ Len(sessions[u].song_candidates) = 3
        /\ sessions[u].start_lyric_keyword # NoText

\* C9: a game started by the search command and a valid choice begins at
\* position 0, whatever the user did before.
C9_SearchStartsAtFirstLine ==
    \A u \in DOMAIN sessions :
        (/\ reply.user = u
         /\ reply.msg.kind \in {"game_start", "start_from_line"}
         /\ command[u] = "search")
        => sessions[u].position = 0

\* the step in which the selection handler of u has its lyrics and runs to
\* its end, and the lyrics it has
SelectionCompletes(u) ==
    \/ get_lyrics_cached(u) /\ cache[loc[u].song] # <<>>
    \/ get_lyrics_store(u)
FetchedLyrics(u) ==
    IF pc[u] = "cache_read" THEN cache[loc[u].song] ELSE loc[u].lyrics

MatchingLines(keyword, lyrics) ==
    {i \in 0..(Len(lyrics) - 1) : is_match(keyword, lyrics[i + 1].text)}

\* C10: a valid choice with a pending start keyword and lyrics: if a line
\* matches, the game starts at the lowest matching index; if none does, the
\* session ends Idle with a not-found reply; the keyword is cleared either way.
C10_FromChoiceOutcome ==
    [][\A u \in Users :
         (/\ SelectionCompletes(u)
          /\ loc[u].stale = <<>>
          /\ sessions[u].start_lyric_keyword # NoText)
         => LET matching == MatchingLines(sessions[u].start_lyric_keyword, FetchedLyrics(u))
            IN  /\ sessions'[u].start_lyric_keyword = NoText
                /\ IF matching # {}
                   THEN /\ sessions'[u].in_song
                        /\ sessions'[u].position \in matching
                        /\ \A i \in matching : sessions'[u].position <= i
                   ELSE /\ ~sessions'[u].in_song
                        /\ ~sessions'[u].selecting_song
                        /\ reply' = To(u, Notice("line_not_found"))]_vars

\* C11: a message for a session in a game that is handled more than
\* session_timeout after the activity the timeout check compares with ends
\* the game before any matching: whatever the text, matching or not, position
\* and lines stay as they are and no lyric is replied.
C11_TimeoutEndsGame ==
    [][\A u \in Users, m \in Messages :
         (/\ Submits(u, m)
          /\ sessions[u].in_song
          /\ now - sessions[u].last_time > session_timeout)
         => (/\ ~sessions'[u].in_song
             /\ sessions'[u].position = sessions[u].position
             /\ sessions'[u].lyrics = sessions[u].lyrics
             /\ reply' = To(u, Notice("state_error"))
             /\ u \notin active_sessions')]_vars

C11_Witness ==
    \E u \in DOMAIN sessions :
        /\ reply = To(u, Notice("state_error"))
        /\ ~sessions[u].in_song
        /\ sessions[u].last_time = now
        /\ sessions[u].position + 1 < Len(sessions[u].lyrics)
        /\ now - StartTime > session_timeout

\* the replies that start a game
StartKinds == {"game_start", "start_from_line"}
\* the replies of a game turn
TurnKinds == {"next_line", "match_failed", "song_completed",
              "song_completed_with_last_line"}

\* C12: the choice that starts a game sets the stamp the timeout check
\* compares with to the time of the start, and the first submission handled
\* within session_timeout of that stamp is a game turn, never a timeout.
C12_ChoiceResetsActivity ==
    [][\A u \in Users :
         /\ (/\ SelectionCompletes(u)
             /\ loc[u].stale = <<>>
             /\ reply'.msg.kind \in StartKinds)
            => (/\ sessions'[u].in_song
                /\ sessions'[u].last_time = now)
         /\ \A m \in Messages :
               (/\ Submits(u, m)
                /\ reply.user = u
                /\ reply.msg.kind \in StartKinds
                /\ sessions[u].in_song
                /\ now - sessions[u].last_time <= session_timeout)
               => reply'.msg.kind \in TurnKinds]_vars

C12_Witness ==
    \E u \in DOMAIN sessions :
        /\ reply.user = u
        /\ reply.msg.kind = "match_failed"
        /\ sessions[u].in_song
        /\ sessions[u].position = 0
        /\ sessions[u].last_time = now
        /\ now - StartTime > session_timeout

\* C13: the next message of a user whose session is selecting and was last
\* active more than session_timeout ago leaves the session not selecting, and
\* a numeric choice among these messages starts no game.
C13_SelectingTimesOut ==
    [][\A u \in Users :
         (/\ u \in DOMAIN sessions
          /\ sessions[u].selecting_song
          /\ now - sessions[u].last_active > session_timeout
          /\ \/ \E k \in Choices : handle_number_selection(u, k)
             \/ \E m \in Messages : handle_all_messages(u, m))
         => (/\ pc'[u] = "idle"
             /\ (u \in DOMAIN sessions') =>
                    (~sessions'[u].selecting_song /\ ~sessions'[u].in_song))]_vars

\* C14: one pass of the sweep at time now removes exactly the sessions that
\* are not in a game and were last active more than twice session_timeout
\* ago; every other session stays in the store as it was.
C14_SweepRemovesExactlyStaleIdle ==
    [][cleanup_sessions
         => (/\ DOMAIN sessions' =
                   {u \in DOMAIN sessions :
                        \/ sessions[u].in_song
                        \/ now - sessions[u].last_active <= 2 * session_timeout}
             /\ \A u \in DOMAIN sessions' : sessions'[u] = sessions[u])]_vars

C14_Witness ==
    \E u \in DOMAIN sessions, v \in Users :
        /\ v \notin DOMAIN sessions
        /\ sessions[u].in_song
        /\ now - sessions[u].last_active > 2 * session_timeout

\* C15: an exit command of a user whose session is selecting or in a game is
\* always handled and discards the game: the session is removed, the user is
\* no longer routed, the exit reply is given and the user's next session has
\* the default fields.
C15_ExitDiscardsGame ==
    /\ [](\A u \in DOMAIN sessions :
            (pc[u] = "idle" /\ (sessions[u].selecting_song \/ sessions[u].in_song))
            => u \in active_sessions)
    /\ [][\A u \in Users, m \in ExitWords :
            (/\ handle_all_messages(u, m)
             /\ u \in DOMAIN sessions
             /\ (sessions[u].selecting_song \/ sessions[u].in_song))
            => (/\ u \notin DOMAIN sessions'
                /\ u \notin active_sessions'
                /\ reply' = To(u, Notice("exit_game"))
                /\ get_session(sessions', u, now')[u] = NewSession(now'))]_vars

\* C16: a fault while a turn is processed is answered with the generic
\* failure reply and leaves the stored session out of the game.
C16_FaultForcesIdle ==
    [][\A u \in Users, m \in Messages :
         turn_failed(u, m)
         => (/\ reply' = To(u, Notice("turn_error"))
             /\ ~sessions'[u].in_song
             /\ ~sessions'[u].selecting_song)]_vars

\* C17: a valid choice whose song has no usable lyrics, in the cache or from
\* the lookup, leaves the session neither in a game nor selecting, whatever
\* state the session was in before the choice.
C17_NoLyricsEndsIdle ==
    [][\A u \in Users :
         (get_lyrics_lookup(u, <<>>) /\ loc[u].stale = <<>>)
         => (/\ reply' = To(u, Notice("no_lyrics"))
             /\ ~sessions'[u].in_song
             /\ ~sessions'[u].selecting_song)]_vars

\* the lines each format of the exchange's payload parses to, none for a
\* format the payload does not carry
RawA == lookup.exchange.body.yrc.value
RawB == lookup.exchange.body.lrc.value
FormatA == parse_yrc_lyrics(RawA)
FormatB == parse_lrc_lyrics(RawB)

\* get_lyrics has returned or raised on an exchange
LyricsLookedUp == lookup.op = "get_lyrics" /\ lookup.done
\* ... whose payload is an object of code 200 with no null format
PayloadWellFormed ==
    /\ lookup.exchange.transport = "ok"
    /\ lookup.exchange.status = 200
    /\ lookup.exchange.body.shape = "object"
    /\ lookup.exchange.body.code = 200
    /\ lookup.exchange.body.yrc.kind # "null"
    /\ lookup.exchange.body.lrc.kind # "null"

\* C18: the lookup returns the lines of format A when those are not empty,
\* else the lines of format B when those are not empty, else no lyrics.
C18_FormatSelection ==
    (LyricsLookedUp /\ PayloadWellFormed)
    => lookup.outcome = Returns(IF FormatA # <<>> THEN FormatA ELSE FormatB)

Ordered(lines) ==
    \A i \in 1..(Len(lines) - 1) : lines[i].time <= lines[i + 1].time
NoEmptyNoMetadata(lines) ==
    \A i \in 1..Len(lines) :
        lines[i].text # <<>> /\ ~is_metadata_line(lines[i].text)
\* the timed lines of a raw format A text stand in timestamp order
TimedInOrder(raw) ==
    \A i, j \in 1..Len(raw) :
        (i < j /\ YrcMatches(raw[i]) /\ YrcMatches(raw[j]))
        => raw[i].start <= raw[j].start

\* C19 as stated: for every raw text the lines of either parser are ordered
\* by non-decreasing timestamp and hold no empty and no metadata line.
C19_BothParsersOrdered ==
    LyricsLookedUp
    => (/\ Ordered(FormatA) /\ Ordered(FormatB)
        /\ NoEmptyNoMetadata(FormatA) /\ NoEmptyNoMetadata(FormatB))

\* C19 amended: the lines of the format B parser are ordered by timestamp for
\* every raw text; those of the format A parser keep the file order, so they
\* are ordered when the raw text's timed lines are; neither parser returns an
\* empty or a metadata line.
C19_FormatBOrderedBothClean ==
    LyricsLookedUp
    => (/\ Ordered(FormatB)
        /\ TimedInOrder(RawA) => Ordered(FormatA)
        /\ NoEmptyNoMetadata(FormatA) /\ NoEmptyNoMetadata(FormatB))

C19_Witness ==
    /\ LyricsLookedUp
    /\ lookup.outcome = Returns(FormatB)
    /\ Len(FormatB) = 2
    /\ LrcCollected(RawB) # FormatB

\* C20: neither get_lyrics nor search_songs ever raises: every failure of the
\* exchange, a payload of an unexpected shape included, is returned as none.
C20_LookupNeverRaises ==
    lookup.done => lookup.outcome.raised = "none"

\* calculate_similarity has returned on two texts
Scored == matcher.op = "calculate_similarity" /\ matcher.done

\* C21: the score of two texts is the score of the two texts swapped, and it
\* is an integer from 0 to 100.
C21_ScoreSymmetricInRange ==
    Scored
    => (/\ matcher.result = calculate_similarity(matcher.text2, matcher.text1)
        /\ matcher.result \in 0..100)

C21_Witness ==
    /\ Scored
    /\ matcher.result \notin {0, 90, 100}
    /\ Len(clean_text(matcher.text1)) < Len(clean_text(matcher.text2))

\* round(x) of the quotient (m - d) * 100 / m: the nearest integer, the even
\* one of two equally near
RoundPercent(d, m) ==
    LET q == ((m - d) * 100) \div m
        r == ((m - d) * 100) % m
    IN  IF 2 * r > m THEN q + 1
        ELSE IF 2 * r < m THEN q
        ELSE IF q % 2 = 0 THEN q ELSE q + 1

\* the two normalized texts are not empty, not equal, and neither holds the
\* other
EditDistanceTier ==
    LET clean1 == clean_text(matcher.text1)
        clean2 == clean_text(matcher.text2)
    IN  /\ Scored
        /\ clean1 # <<>> /\ clean2 # <<>> /\ clean1 # clean2
        /\ ~IsSubstring(clean1, clean2) /\ ~IsSubstring(clean2, clean1)

\* C22: in the edit-distance tier the score is max(0, round((1 - d/m) * 100)),
\* and is_match compares that rounded value with the threshold.
C22_ScoreIsRounded ==
    EditDistanceTier
    => LET clean1 == clean_text(matcher.text1)
           clean2 == clean_text(matcher.text2)
           rounded == Max2(0, RoundPercent(levenshtein_distance(clean1, clean2),
                                           Max2(Len(clean1), Len(clean2))))
       IN  /\ matcher.result = rounded
           /\ is_match(matcher.text1, matcher.text2) <=> (rounded >= match_threshold)

\* find_position has returned on a text, a line sequence and a session
Located == matcher.op = "find_position" /\ matcher.done
\* line i (0-based) of the call's sequence matches the call's text
LineMatches(i) ==
    /\ 0 <= i
    /\ i < Len(matcher.lyrics)
    /\ is_match(matcher.text1, matcher.lyrics[i + 1].text)

\* C23: find_position returns -1 or the index of a line of the sequence that
\* matches the text, and -1 exactly when no line of the sequence matches.
C23_LocatorResultInRange ==
    Located
    => (/\ matcher.result = -1 \/ LineMatches(matcher.result)
        /\ (matcher.result = -1)
               <=> ~\E i \in 0..(Len(matcher.lyrics) - 1) : LineMatches(i))

C23_Witness ==
    /\ Located
    /\ matcher.session.in_song
    /\ matcher.lyrics # <<>>
    /\ matcher.session.position = Len(matcher.lyrics)
    /\ matcher.result = Len(matcher.lyrics) - 1

\* the lowest matching index from lo up to but not including hi, -1 when none
LowestMatch(lo, hi) ==
    LET found == {i \in lo..(hi - 1) : LineMatches(i)}
    IN  IF found = {} THEN -1
        ELSE CHOOSE i \in found : \A j \in found : i <= j

\* C24: find_position returns the index of the first strategy with a match:
\* position, if a game is in progress; position + 1; the lowest match of the
\* window around position; the lowest match of the sequence.  The strategies
\* after the first apply whether or not a game is in progress.
C24_StrategyOrder ==
    Located
    => LET position == matcher.session.position
           window == LowestMatch(Max2(0, position - 3),
                                 Min2(Len(matcher.lyrics), position + 10))
       IN  matcher.result =
               IF matcher.session.in_song /\ LineMatches(position) THEN position
               ELSE IF LineMatches(position + 1) THEN position + 1
               ELSE IF window # -1 THEN window
               ELSE LowestMatch(0, Len(matcher.lyrics))

\* C25: the cache entry of a song is written at most once, and the lookup is
\* never called for a song whose lines are in the cache, also when the
\* selection handlers of several users interleave.
C25_CacheWrittenOnce ==
    [][\A u \in Users :
         /\ get_lyrics_store(u) => cache[loc[u].song] = <<>>
         /\ (get_lyrics_cached(u) /\ pc'[u] = "lookup")
                => cache[loc[u].song] = <<>>]_vars

\* C26: when a valid choice starts a game, the session the game was started
\* on is the session the map holds for the user, however the sweep
\* interleaves with the handler's awaits.
C26_GameStartsOnStoredSession ==
    [][\A u \in Users :
         (SelectionCompletes(u) /\ reply'.msg.kind \in StartKinds)
         => (/\ loc[u].stale = <<>>
             /\ u \in DOMAIN sessions'
             /\ sessions'[u].in_song)]_vars

\* C27: in every reachable state a session in a game has position strictly
\* below the number of its lines.
C27_InSongPositionBelowLength ==
    \A s \in AllSessions : s.in_song => s.position < Len(s.lyrics)

C27_Witness ==
    \E u \in DOMAIN sessions :
        /\ sessions[u].in_song
        /\ sessions[u].position > 0
        /\ sessions[u].position + 1 = Len(sessions[u].lyrics)

\* C28: in every reachable state the user of a stored session that is in a
\* game or selecting is in active_sessions.
C28_EngagedIsRouted ==
    \A u \in DOMAIN sessions :
        (sessions[u].in_song \/ sessions[u].selecting_song)
        => u \in active_sessions

\* C29: while a session stays in a game its position never decreases, and a
\* matching submission moves position on by exactly 2 or ends the game.
C29_PositionNeverDecreases ==
    [][\A u \in Users :
         /\ (/\ u \in DOMAIN sessions
             /\ u \in DOMAIN sessions'
             /\ sessions[u].in_song
             /\ sessions'[u].in_song)
            => sessions'[u].position >= sessions[u].position
         /\ \A m \in Messages :
               (Submits(u, m) /\ Singing(u) /\ Matches(u, m))
               => \/ sessions'[u].position = sessions[u].position + 2
                  \/ ~sessions'[u].in_song]_vars

TypeOK ==
    /\ active_sessions \subseteq Users
    /\ DOMAIN sessions \subseteq Users
    /\ \A u \in DOMAIN sessions : sessions[u].position \in Nat

====
